---- MODULE Spec2Model ----
(***************************************************************************)
(* Model of convert.py: the streaming wiki-dump converter.                 *)
(*                                                                         *)
(* main() is modelled as a state machine over the iterparse event stream:  *)
(* the outer "for event, element in context" loop, the inner batch-filling *)
(* "while len(batch) < args.batch_size" loop, the worker-pool barrier      *)
(* (pool.starmap) followed by the counter update and save_state, and the   *)
(* asynchronous delivery of SIGINT/SIGTERM to the registered handler.      *)
(***************************************************************************)
EXTENDS Integers, Sequences, FiniteSets, TLC

(***************************************************************************)
(* Bounds of the model.                                                    *)
(***************************************************************************)
MaxPages == 3      \* page elements in the input document
MaxBatch == 3      \* largest --batch-size
MaxResume == 1     \* largest --resume-from
MaxSaved == 1      \* largest counter value in a pre-existing checkpoint
MaxTextLen == 2    \* longest text handed to convert_to_markdown
MaxSegs == 2       \* most segments in a text handed to clean_wiki_markup

(***************************************************************************)
(* Python runtime facts the program depends on.                            *)
(***************************************************************************)
\* def signal_handler(signum): one positional parameter
HandlerArity == 1
\* the interpreter calls a handler installed with signal.signal as
\* handler(signum, frame)
SignalCallArgs == 2

(***************************************************************************)
(* Text.  A string is a sequence of characters; "s" is a space, "a" any    *)
(* non-whitespace character.                                               *)
(***************************************************************************)
RECURSIVE lstrip(_)
lstrip(s) == IF s # <<>> /\ Head(s) = "s" THEN lstrip(Tail(s)) ELSE s

RECURSIVE rstrip(_)
rstrip(s) ==
  IF s # <<>> /\ s[Len(s)] = "s" THEN rstrip(SubSeq(s, 1, Len(s) - 1)) ELSE s

\* str.strip()
strip(s) == rstrip(lstrip(s))

(***************************************************************************)
(* An XML sub-element as element.find() and .text see it: found = FALSE is *)
(* find() returning None; hasText = FALSE is .text being None, which is    *)
(* what ElementTree gives for <title/> and <title></title>.                *)
(***************************************************************************)
Missing == [found |-> FALSE, hasText |-> FALSE, text |-> <<>>]
Empty == [found |-> TRUE, hasText |-> FALSE, text |-> <<>>]
Txt(s) == [found |-> TRUE, hasText |-> TRUE, text |-> s]

\* the page elements the input document is built from
PageKinds ==
  { [title |-> Txt(<<"a">>), text |-> Txt(<<"s", "a">>)],   \* valid page
    [title |-> Txt(<<"s">>), text |-> Txt(<<"a">>)],        \* blank title
    [title |-> Txt(<<"a">>), text |-> Empty],               \* empty text
    [title |-> Missing, text |-> Txt(<<"a">>)] }            \* no title

\* Python's None as the result of process_page
None == [none |-> TRUE, title |-> <<>>, text |-> <<>>]

\* the tuple (title, text)
Tuple(t, x) == [none |-> FALSE, title |-> t, text |-> x]

\* "if page_data" / "if not page_data": None is falsy, a 2-tuple is truthy
Truthy(page_data) == ~page_data.none

process_page(element) ==
  LET valid_title == element.title.found /\ element.title.hasText
      valid_text == element.text.found /\ element.text.hasText
  IN IF valid_title /\ valid_text
       THEN Tuple(strip(element.title.text), strip(element.text.text))
       ELSE None

(***************************************************************************)
(* The event stream of ET.iterparse(xml_file, events=('start', 'end')).    *)
(* The root's start event comes first; every page contributes the start    *)
(* event of the page and its end event (the events of the sub-elements     *)
(* are handled like the page's start event: no branch of main matches      *)
(* them); a well-formed document ends with the root's end event, a         *)
(* malformed one makes the parser raise ParseError instead.                *)
(***************************************************************************)
Ev(e, t, i) == [ev |-> e, tag |-> t, idx |-> i]

RECURSIVE PageEvents(_, _)
PageEvents(n, i) ==
  IF i > n THEN <<>>
  ELSE <<Ev("start", "page", i), Ev("end", "page", i)>> \o PageEvents(n, i + 1)

Events(d) ==
  <<Ev("start", "root", 0)>> \o PageEvents(Len(d.pages), 1)
    \o (IF d.malformed THEN <<>> ELSE <<Ev("end", "root", 0)>>)

\* number of page elements whose 'end' event is among the first c events
RECURSIVE PagesRead(_, _)
PagesRead(evs, c) ==
  IF c = 0 THEN 0
  ELSE PagesRead(evs, c - 1)
         + (IF evs[c].ev = "end" /\ evs[c].tag = "page" THEN 1 ELSE 0)

(***************************************************************************)
(* The checkpoint file, by what json.load makes of it.                     *)
(***************************************************************************)
File(k, p, s, f, st) ==
  [kind |-> k, position |-> p, success |-> s, failed |-> f, status |-> st]

Other(k) == File(k, 0, 0, 0, "none")

\* absent: no file; empty: zero bytes; garbage: not JSON; unreadable: open()
\* raises an OSError other than FileNotFoundError; falsy: {} [] null 0 "";
\* nofields: a non-empty object without the counters; nonobject: a truthy
\* value that is not an object ([1], 5, "abc")
OtherKinds ==
  {"absent", "empty", "garbage", "unreadable", "falsy", "nofields",
   "nonobject"}

Checkpoints ==
  { File("record", p, s, f, st) :
      p \in 0..MaxSaved, s \in 0..MaxSaved, f \in 0..MaxSaved,
      st \in {"in_progress", "terminated"} }

Files == { Other(k) : k \in OtherKinds } \cup Checkpoints

VARIABLES
  doc,          \* the input document: [pages, malformed]
  args,         \* [batch_size, resume_from, input_exists]
  state_file,   \* contents of logs/.conversion_state.json
  should_exit,  \* the module-level cancellation flag
  pc,           \* where main is: start, loop, fill, pool, exited
  exit_code,    \* process exit status, -1 while running
  outcome,      \* why the process ended
  namespace,    \* "None" until detected
  cur,          \* events consumed from the iterparse context
  batch,        \* the batch being filled or executed
  results,      \* per record of the batch: "pending", "True" or "False"
  processed, success, failed,   \* the counters of main
  loaded,       \* the counters as initialised at lines 218-220
  file0,        \* the checkpoint file as the process found it
  writes,       \* number of save_state calls of this run
  bad,          \* worker tasks of this run whose outcome was not "ok"
  lastPull,     \* which loop consumed the latest event: none, outer, inner
  flagRead,     \* whether should_exit was read when handling that event
  sigAt,        \* where main was when a signal arrived ("none": no signal)
  conv,         \* one call of convert_to_markdown, step by step
  cm            \* one text taken through clean_wiki_markup

mainVars ==
  <<doc, args, state_file, should_exit, pc, exit_code, outcome, namespace,
    cur, batch, results, processed, success, failed, loaded, file0, writes,
    bad, lastPull, flagRead, sigAt>>

vars == <<mainVars, conv, cm>>

RECURSIVE SeqsUpTo(_, _)
SeqsUpTo(S, n) ==
  IF n = 0 THEN {<<>>}
  ELSE SeqsUpTo(S, n - 1)
         \cup { Append(q, x) : q \in { r \in SeqsUpTo(S, n - 1) : Len(r) = n - 1 },
                               x \in S }

Docs == [pages : SeqsUpTo(PageKinds, MaxPages), malformed : BOOLEAN]

Args ==
  [batch_size : 1..MaxBatch, resume_from : 0..MaxResume,
   input_exists : BOOLEAN]

\* main before its first statement, the flag as line 16 leaves it
MainRest ==
  /\ file0 = state_file
  /\ should_exit = FALSE
  /\ pc = "start"
  /\ exit_code = -1
  /\ outcome = "running"
  /\ namespace = "None"
  /\ cur = 0
  /\ batch = <<>>
  /\ results = <<>>
  /\ processed = 0 /\ success = 0 /\ failed = 0
  /\ loaded = [position |-> 0, success |-> 0, failed |-> 0]
  /\ writes = 0
  /\ bad = 0
  /\ lastPull = "none"
  /\ flagRead = FALSE
  /\ sigAt = "none"

\* no call of convert_to_markdown is being followed
ConvIdle ==
  [pc |-> "idle", text |-> <<>>, format |-> "none", temp |-> FALSE,
   content |-> <<>>, pending |-> "none", ret |-> "unset", exc |-> "none"]

\* no text is being followed through clean_wiki_markup
CleanIdle == [pc |-> "idle", segs |-> <<>>, text |-> "", out |-> "",
              again |-> ""]

Init ==
  /\ doc \in Docs
  /\ args \in Args
  /\ state_file \in Files
  /\ MainRest
  /\ conv = ConvIdle
  /\ cm = CleanIdle

(***************************************************************************)
(* Checkpoint Manager.                                                     *)
(***************************************************************************)
\* save_state: the record json.dump writes (last_updated, a wall-clock
\* timestamp nothing reads back, is left out)
save_state(p, s, f, flag) ==
  File("record", p, s, f, IF flag THEN "terminated" ELSE "in_progress")

\* Path(...).touch(exist_ok=True): creates the file when it is absent
touch(f) == IF f.kind = "absent" THEN Other("empty") ELSE f

\* load_state lets every exception but FileNotFoundError and
\* json.JSONDecodeError through
load_state_raises(f) == f.kind = "unreadable"

\* load_state: None for a missing file or text that is not JSON, else
\* whatever value json.load returns
load_state(f) ==
  IF f.kind \in {"absent", "empty", "garbage"} THEN Other("None") ELSE f

\* "state[...] if state else ...": truthiness of the loaded value
StateTruthy(state) == state.kind \in {"record", "nofields", "nonobject"}

\* state['position'], state['success'], state['failed'] succeed only on an
\* object that has the keys (KeyError / TypeError otherwise)
SubscriptRaises(state) == state.kind \in {"nofields", "nonobject"}

\* variant: the saved checkpoint is ignored
initial_counters_m(state, resume_from) ==
  [position |-> resume_from, success |-> 0, failed |-> 0]

\* lines 218-220
initial_counters(state, resume_from) ==
  [position |-> IF StateTruthy(state) THEN state.position ELSE resume_from,
   success |-> IF StateTruthy(state) THEN state.success ELSE 0,
   failed |-> IF StateTruthy(state) THEN state.failed ELSE 0]

(***************************************************************************)
(* Worker task.  The external converter and the filesystem decide the      *)
(* outcome of a task; process_single_page maps it to the task's result.    *)
(***************************************************************************)
\* what happens to one task: convert_to_markdown raises, returns None
\* (non-zero exit status or timeout), returns the empty string or returns
\* text; in the last case save_markdown succeeds ("ok") or returns False
TaskOutcomes ==
  {"ok", "convert_raises", "convert_none", "convert_empty", "save_failed"}

\* variant: the "if not converted" test is missing
process_single_page_m(o) == o \notin {"convert_raises", "save_failed"}

\* the task's result: True only when nothing raised inside the try block
process_single_page(o) ==
  LET raised == o = "convert_raises"
      converted == IF o = "convert_none" THEN "None"
                   ELSE IF o = "convert_empty" THEN "" ELSE "text"
      not_converted == converted \in {"None", ""}    \* ValueError, line 108
      saved == o # "save_failed"                     \* ValueError, line 114
  IN ~raised /\ ~not_converted /\ saved

RECURSIVE sum(_)
sum(res) ==
  IF res = <<>> THEN 0
  ELSE (IF Head(res) THEN 1 ELSE 0) + sum(Tail(res))

\* the result list of a batch whose tasks have all been submitted
Pending(n) == [i \in 1..n |-> "pending"]

\* variant: "failed += len(results)"
count_failures_m(res) == Len(res)

\* "len(results) - sum(results)"
count_failures(res) == Len(res) - sum(res)

(***************************************************************************)
(* Process exit.                                                           *)
(***************************************************************************)
Exit(code, why) ==
  /\ pc' = "exited"
  /\ exit_code' = code
  /\ outcome' = why

events == Events(doc)

\* variant: "while len(batch) <= args.batch_size"
batch_open_m(n, batch_size) == n <= batch_size

\* "while len(batch) < args.batch_size"
batch_open(n, batch_size) == n < batch_size

\* variant: "processed = len(batch)"
advance_m(p, n) == n

\* "processed += len(batch)"
advance(p, n) == p + n

\* "event == 'end' and element.tag == f'{{{namespace}}}page'"
IsPageEnd(e, ns) == e.ev = "end" /\ e.tag = "page" /\ ns = "ns"

(***************************************************************************)
(* main, lines 187-220: create the log files, verify the input, load the   *)
(* checkpoint and initialise the counters.                                 *)
(***************************************************************************)
Startup ==
  /\ pc = "start"
  /\ LET f == touch(state_file)
         state == load_state(f)
         c == initial_counters(state, args.resume_from)
     IN /\ state_file' = f
        /\ IF ~args.input_exists
             THEN /\ Exit(1, "missing_input")
                  /\ UNCHANGED <<processed, success, failed, loaded>>
           ELSE IF load_state_raises(f)
                     \/ (StateTruthy(state) /\ SubscriptRaises(state))
             THEN /\ Exit(1, "fatal")
                  /\ UNCHANGED <<processed, success, failed, loaded>>
           ELSE /\ processed' = c.position
                /\ success' = c.success
                /\ failed' = c.failed
                /\ loaded' = c
                /\ pc' = "loop"
                /\ UNCHANGED <<exit_code, outcome>>
  /\ UNCHANGED <<doc, args, should_exit, namespace, cur, batch, results,
                 file0, writes, bad, lastPull, flagRead, sigAt>>
  /\ UNCHANGED <<conv, cm>>

(***************************************************************************)
(* main, lines 228-266 up to the inner loop: one iteration of              *)
(* "for event, element in context".                                        *)
(***************************************************************************)
OuterNext ==
  /\ pc = "loop"
  /\ IF cur = Len(events)
       THEN \* the iterator is exhausted, or the parser raises ParseError
            /\ IF doc.malformed THEN Exit(1, "parse_error")
                                ELSE Exit(0, "completed")
            /\ UNCHANGED <<state_file, namespace, cur, batch, processed,
                           success, failed, writes, lastPull, flagRead>>
     ELSE LET e == events[cur + 1]
              page_data == process_page(doc.pages[e.idx])
          IN /\ cur' = cur + 1
             /\ lastPull' = "outer"
             /\ flagRead' = TRUE
             /\ IF should_exit
                  THEN /\ state_file' =
                            save_state(processed, success, failed, should_exit)
                       /\ writes' = writes + 1
                       /\ Exit(0, "cancelled")
                       /\ UNCHANGED <<namespace, batch, processed, success,
                                      failed>>
                ELSE IF e.ev = "start" /\ namespace = "None"
                  THEN /\ namespace' = "ns"
                       /\ UNCHANGED <<state_file, batch, processed, success,
                                      failed, writes, pc, exit_code,
                                      outcome>>
                ELSE IF IsPageEnd(e, namespace)
                  THEN IF ~Truthy(page_data)
                         THEN /\ failed' = failed + 1
                              /\ processed' = processed + 1
                              /\ UNCHANGED <<state_file, namespace, batch,
                                             success, writes, pc,
                                             exit_code, outcome>>
                       ELSE /\ batch' = <<page_data>>
                            /\ pc' = IF batch_open(1, args.batch_size)
                                       THEN "fill" ELSE "pool"
                            /\ UNCHANGED <<state_file, namespace, processed,
                                           success, failed, writes, exit_code,
                                           outcome>>
                ELSE UNCHANGED <<state_file, namespace, batch, processed,
                                 success, failed, writes, pc,
                                 exit_code, outcome>>
  /\ results' = IF pc' = "pool" THEN Pending(Len(batch')) ELSE results
  /\ UNCHANGED <<doc, args, should_exit, loaded, file0, bad, sigAt>>
  /\ UNCHANGED <<conv, cm>>

(***************************************************************************)
(* main, lines 256-266: one iteration of the batch-filling loop.           *)
(***************************************************************************)
\* what next(context) raises once c events have been consumed
next_raises(d, c) ==
  IF c < Len(Events(d)) THEN "none"
  ELSE IF d.malformed THEN "ParseError" ELSE "StopIteration"

\* variant: a bare "except:" around next(context)
fill_catches_m(exc) == TRUE

\* "except StopIteration: break"
fill_catches(exc) == exc = "StopIteration"

\* variant: the inner loop reads should_exit for every event it takes
FillReadsFlag_m == TRUE

\* the inner loop never reads should_exit
FillReadsFlag == FALSE

FillNext ==
  /\ pc = "fill"
  /\ batch_open(Len(batch), args.batch_size)
  /\ IF cur = Len(events)
       THEN /\ IF fill_catches(next_raises(doc, cur))
                 THEN /\ pc' = "pool"                   \* break
                      /\ UNCHANGED <<exit_code, outcome>>
               ELSE Exit(1, "parse_error")              \* caught at 289
            /\ UNCHANGED <<cur, batch, lastPull, flagRead>>
     ELSE LET next_event == events[cur + 1]
              next_data == process_page(doc.pages[next_event.idx])
          IN /\ cur' = cur + 1
             /\ lastPull' = "inner"
             /\ flagRead' = FillReadsFlag
             /\ IF IsPageEnd(next_event, namespace)
                  THEN IF Truthy(next_data)
                         THEN /\ batch' = Append(batch, next_data)
                              /\ pc' = IF batch_open(Len(batch) + 1,
                                                      args.batch_size)
                                         THEN "fill" ELSE "pool"
                       ELSE UNCHANGED <<batch, pc>>              \* dropped
                ELSE UNCHANGED <<batch, pc>>
             /\ UNCHANGED <<exit_code, outcome>>
  /\ results' = IF pc' = "pool" THEN Pending(Len(batch')) ELSE results
  /\ UNCHANGED <<doc, args, state_file, should_exit, namespace, processed,
                 success, failed, loaded, file0, writes, bad, sigAt>>
  /\ UNCHANGED <<conv, cm>>

(***************************************************************************)
(* A worker of the pool finishes process_single_page for one record of     *)
(* the batch (lines 96-119); tasks finish in any order, each once.         *)
(***************************************************************************)
TaskReturn ==
  /\ pc = "pool"
  /\ \E i \in 1..Len(batch), o \in TaskOutcomes :
       /\ results[i] = "pending"
       /\ results' = [results EXCEPT
                        ![i] = IF process_single_page(o) THEN "True"
                                                         ELSE "False"]
       /\ bad' = bad + (IF o = "ok" THEN 0 ELSE 1)
  /\ UNCHANGED <<doc, args, state_file, should_exit, pc, exit_code, outcome,
                 namespace, cur, batch, processed, success, failed, loaded,
                 file0, writes, lastPull, flagRead, sigAt>>
  /\ UNCHANGED <<conv, cm>>

\* variant: the results are consumed as soon as one task has returned
all_returned_m(res) == \E i \in 1..Len(res) : res[i] # "pending"

\* pool.starmap blocks until every task of the batch has returned
all_returned(res) == \A i \in 1..Len(res) : res[i] # "pending"

(***************************************************************************)
(* main, lines 269-280: pool.starmap returns one result per record of the  *)
(* batch, the counters are updated and the checkpoint is saved.            *)
(***************************************************************************)
ProcessBatch ==
  /\ pc = "pool"
  /\ all_returned(results)
  /\ LET res == [i \in 1..Len(results) |-> results[i] = "True"]
         s == success + sum(res)
         f == failed + count_failures(res)
         p == advance(processed, Len(batch))
     IN /\ success' = s
        /\ failed' = f
        /\ processed' = p
        /\ state_file' = save_state(p, s, f, should_exit)
  /\ writes' = writes + 1
  /\ pc' = "loop"
  /\ UNCHANGED <<doc, args, should_exit, exit_code, outcome, namespace, cur,
                 batch, results, loaded, file0, bad, lastPull, flagRead,
                 sigAt>>
  /\ UNCHANGED <<conv, cm>>

(***************************************************************************)
(* SIGINT or SIGTERM is delivered.  The interpreter calls the registered   *)
(* handler with SignalCallArgs arguments in the main thread; a handler     *)
(* that takes another number of parameters raises TypeError before its     *)
(* body runs, and the exception ends main with status 1 (caught at line    *)
(* 292 inside the try block, uncaught before it).                          *)
(***************************************************************************)
signal_handler_raises == SignalCallArgs # HandlerArity

Signal ==
  /\ pc # "exited"
  /\ sigAt' = IF sigAt = "none" THEN pc ELSE sigAt
  /\ IF signal_handler_raises
       THEN /\ Exit(1, "signal_error")
            /\ UNCHANGED should_exit
     ELSE /\ should_exit' = TRUE
          /\ UNCHANGED <<pc, exit_code, outcome>>
  /\ UNCHANGED <<doc, args, state_file, namespace, cur, batch, results,
                 processed, success, failed, loaded, file0, writes, bad,
                 lastPull, flagRead>>
  /\ UNCHANGED <<conv, cm>>

Next ==
  Startup \/ OuterNext \/ FillNext \/ TaskReturn \/ ProcessBatch \/ Signal

Spec == Init /\ [][Next]_vars

(***************************************************************************)
(* Conversion Invoker: one call of convert_to_markdown(text, format),      *)
(* lines 156-183, followed statement by statement.  conv.temp tells        *)
(* whether the temporary file exists on disk; the call ends in pc          *)
(* "returned" (conv.ret is None, the empty string or text) or "raised".    *)
(* These endings are the convert_* outcomes of a worker task above.        *)
(***************************************************************************)
ConvTexts == SeqsUpTo({"s", "a"}, MaxTextLen)

ConvFormats == {"markdown", "gfm"}

\* what subprocess.run does: it cannot start pandoc (OSError), pandoc
\* outlives the timeout, exits with a non-zero status, or exits with
\* status 0 and an empty or a non-empty stdout
RunOutcomes == {"start_failure", "timeout", "nonzero", "empty", "text"}

InitConvert ==
  /\ doc = [pages |-> <<>>, malformed |-> FALSE]
  /\ args = [batch_size |-> 1, resume_from |-> 0, input_exists |-> TRUE]
  /\ state_file = Other("absent")
  /\ MainRest
  /\ cm = CleanIdle
  /\ conv \in { [ConvIdle EXCEPT !.pc = "call", !.text = t, !.format = f] :
                   t \in ConvTexts, f \in ConvFormats }

\* line 159: NamedTemporaryFile(mode='w', delete=False) creates the file,
\* or raises and creates nothing
ConvCreateTemp ==
  /\ conv.pc = "call"
  /\ \/ conv' = [conv EXCEPT !.pc = "write", !.temp = TRUE]
     \/ conv' = [conv EXCEPT !.pc = "raised", !.exc = "OSError"]
  /\ UNCHANGED <<mainVars, cm>>

\* lines 160-161 and the end of the with block, which closes the file and,
\* because of delete=False, never removes it: the text is written, or the
\* write (or the flush on close) raises and the exception leaves the
\* function before the try statement of line 163 is entered
ConvWriteTemp ==
  /\ conv.pc = "write"
  /\ \/ conv' = [conv EXCEPT !.pc = "run", !.content = conv.text]
     \/ conv' = [conv EXCEPT !.pc = "raised", !.exc = "write_error"]
  /\ UNCHANGED <<mainVars, cm>>

\* lines 164-178: subprocess.run and what the try body and the except
\* clause make of it; the finally clause is still to run
ConvRun ==
  /\ conv.pc = "run"
  /\ \E r \in RunOutcomes : conv' = [conv EXCEPT !.pc = "finally",
                                                  !.pending = r]
  /\ UNCHANGED <<mainVars, cm>>

\* lines 179-183: os.unlink(temp_name), FileNotFoundError ignored
unlink(c) == FALSE

\* lines 169-178 as seen by the caller once the finally clause has run
ConvFinally ==
  /\ conv.pc = "finally"
  /\ conv' =
       [conv EXCEPT
          !.temp = unlink(conv),
          !.pc = IF conv.pending = "start_failure" THEN "raised"
                 ELSE "returned",
          !.exc = IF conv.pending = "start_failure" THEN "OSError"
                  ELSE "none",
          !.ret = IF conv.pending \in {"timeout", "nonzero"} THEN "None"
                  ELSE IF conv.pending = "empty" THEN ""
                  ELSE IF conv.pending = "text" THEN "text"
                  ELSE "unset"]
  /\ UNCHANGED <<mainVars, cm>>

NextConvert == ConvCreateTemp \/ ConvWriteTemp \/ ConvRun \/ ConvFinally

SpecConvert == InitConvert /\ [][NextConvert]_vars

(***************************************************************************)
(* Markup Cleaner: clean_wiki_markup(text), lines 129-153, and             *)
(* process_wikilink, lines 122-126.  Texts are strings; a rule of the      *)
(* patterns list is a record that names the shape of its regular           *)
(* expression and the literals in it, and re.sub is computed as Python     *)
(* computes it: the leftmost match first, then on from the end of that     *)
(* match.                                                                  *)
(***************************************************************************)
Char(s, i) == SubSeq(s, i, i)

\* the literal lit stands in s at index i
HasAt(s, i, lit) ==
  /\ i + Len(lit) - 1 <= Len(s)
  /\ SubSeq(s, i, i + Len(lit) - 1) = lit

\* the characters \s matches
Whitespace == {" ", "\t", "\n", "\r", "\f"}

\* the least index of a non-empty set of indices
First(S) == CHOOSE k \in S : \A h \in S : k <= h

\* [^stop]* from index j: the index of the first stop at or after j, or
\* Len(s) + 1 (a negated class matches the newline too)
RunEnd(s, j, stop) ==
  LET stops == { k \in j..Len(s) : Char(s, k) = stop }
  IN  IF stops = {} THEN Len(s) + 1 ELSE First(stops)

\* \s* from index j: the index after the whitespace
WsEnd(s, j) ==
  LET others == { k \in j..Len(s) : Char(s, k) \notin Whitespace }
  IN  IF others = {} THEN Len(s) + 1 ELSE First(others)

\* .*? before close, from index k: the first index at or after k where close
\* stands, with no newline on the way (the dot does not match it); 0 if none
LazyEnd(s, k, close) ==
  LET ends == { h \in k..Len(s) : HasAt(s, h, close) }
  IN  IF ends = {} THEN 0
      ELSE IF \E x \in k..(First(ends) - 1) : Char(s, x) = "\n" THEN 0
      ELSE First(ends)

\* str.replace(old, new) for a one-character old, halving the text
RECURSIVE replace(_, _, _)
replace(s, old, new) ==
  IF Len(s) = 0 THEN ""
  ELSE IF Len(s) = 1 THEN (IF s = old THEN new ELSE s)
  ELSE replace(SubSeq(s, 1, Len(s) \div 2), old, new)
         \o replace(SubSeq(s, Len(s) \div 2 + 1, Len(s)), old, new)

\* lines 122-126; p is where the first '|' stands
process_wikilink(link) ==
  LET p == RunEnd(link, 1, "|")
  IN  IF p <= Len(link)
      THEN LET target == SubSeq(link, 1, p - 1)
               label == SubSeq(link, p + 1, Len(link))
           IN  "[" \o label \o "](/" \o replace(target, " ", "_") \o ")"
      ELSE "[" \o link \o "](/" \o replace(link, " ", "_") \o ")"

(***************************************************************************)
(* The shapes of the ten patterns.  g is the group, pre and post the       *)
(* literal text of the replacement around \1:                              *)
(*   "class"      open [^stop]+ close            ->  pre g post            *)
(*   "class_ws"   open [^stop]+ close \s* tail   ->  pre g post            *)
(*   "class_drop" open [^stop]+ close            ->  pre                   *)
(*   "literal"    open                           ->  pre                   *)
(*   "line_end"   open \s* $                     ->  pre                   *)
(*   "lazy"       open (.+?) close               ->  process_wikilink(g)   *)
(* In every class rule close begins with the stop character, so the greedy *)
(* run ends at the first stop and backtracking finds nothing else.         *)
(***************************************************************************)
Rule(kind, open, stop, close, tail, pre, post) ==
  [kind |-> kind, open |-> open, stop |-> stop, close |-> close,
   tail |-> tail, pre |-> pre, post |-> post]

\* lines 132-147, in the order of the list
patterns ==
  << Rule("class",
          "{| class=\"wikitable sortable mw-collapsible\" ; text-align:",
          "\"", "\"", "",
          "{| class=\"wikitable sortable mw-collapsible\" style=\"text-align:",
          "\""),
     Rule("line_end", "|-", "", "", "", "|-", ""),
     Rule("literal", "| style=\"vertical-align: top; |", "", "", "",
          "| style=\"vertical-align: top;\" |", ""),
     Rule("class", "data-sheets-value=\"{\"1\":2,\"2\":\"", "\"", "\"}\"",
          "", "data-sheets-value=\"", "\""),
     Rule("class", "{{short description|", "}", "}}", "",
          "<!-- Short description: ", " -->"),
     Rule("class_drop", "{{Use ", "}", "}}", "", "", ""),
     Rule("class_ws", "<ref name=\"", "\"", "\">", "</ref>",
          "<!--ref ", "-->"),
     Rule("class_ws", "<ref name='", "'", "'>", "</ref>",
          "<!--ref ", "-->"),
     Rule("class", "{{", "}", "}}", "", "<!-- ", " -->"),
     Rule("lazy", "[[", "", "]]", "", "", "") >>

NoMatch == [ok |-> FALSE, end |-> 0, g |-> ""]

\* re.match of rule r at index i of s: whether it matches, the index after
\* the match and the group
match(r, s, i) ==
  LET j == i + Len(r.open)
  IN
  IF ~HasAt(s, i, r.open) THEN NoMatch
  ELSE IF r.kind \in {"class", "class_ws", "class_drop"} THEN
    LET k == RunEnd(s, j, r.stop)
        e == IF r.kind = "class_ws" THEN WsEnd(s, k + Len(r.close))
             ELSE k + Len(r.close)
    IN  IF k > j /\ HasAt(s, k, r.close) /\ HasAt(s, e, r.tail)
        THEN [ok |-> TRUE, end |-> e + Len(r.tail),
              g |-> SubSeq(s, j, k - 1)]
        ELSE NoMatch
  ELSE IF r.kind = "literal" THEN [ok |-> TRUE, end |-> j, g |-> ""]
  ELSE IF r.kind = "line_end" THEN
    IF WsEnd(s, j) = Len(s) + 1
    THEN [ok |-> TRUE, end |-> Len(s) + 1, g |-> ""]
    ELSE NoMatch
  ELSE
    LET k == IF j <= Len(s) /\ Char(s, j) # "\n"
             THEN LazyEnd(s, j + 1, r.close) ELSE 0
    IN  IF k > 0
        THEN [ok |-> TRUE, end |-> k + Len(r.close),
              g |-> SubSeq(s, j, k - 1)]
        ELSE NoMatch

\* the replacement of one match of rule r with group g
expand(r, g) ==
  IF r.kind = "lazy" THEN process_wikilink(g)
  ELSE IF r.kind \in {"class", "class_ws"} THEN r.pre \o g \o r.post
  ELSE r.pre

\* re.search of rule r in s from index i: the index where the leftmost
\* match starts, 0 if there is none
search(r, s, i) ==
  LET starts == { k \in i..Len(s) : match(r, s, k).ok }
  IN  IF starts = {} THEN 0 ELSE First(starts)

\* re.sub from index i on, n replacements made so far; count = 0 means
\* no limit, as in re.sub(pattern, repl, string, count=0): the text up to
\* the leftmost match is kept, the match is replaced, and the search goes
\* on after it
RECURSIVE sub_from(_, _, _, _, _)
sub_from(r, s, i, n, count) ==
  LET k == IF count > 0 /\ n >= count THEN 0 ELSE search(r, s, i)
      m == match(r, s, k)
  IN  IF k = 0 THEN SubSeq(s, i, Len(s))
      ELSE SubSeq(s, i, k - 1) \o expand(r, m.g)
             \o sub_from(r, s, m.end, n + 1, count)

\* variant: only the first match is replaced
sub_m(r, s) == sub_from(r, s, 1, 0, 1)

\* line 150: re.sub(pattern, replacement, text)
sub(r, s) == sub_from(r, s, 1, 0, 0)

\* lines 149-150: the loop over the list, each rule on the last one's output
RECURSIVE apply(_, _, _)
apply(ps, k, text) ==
  IF k > Len(ps) THEN text ELSE apply(ps, k + 1, sub(ps[k], text))

clean_wiki_markup(text) == apply(patterns, 1, text)

(***************************************************************************)
(* Inputs of the cleaner: a text is a sequence of at most MaxSegs          *)
(* segments, each a piece of plain text or one wiki construct.             *)
(***************************************************************************)
Seg(kind, a, b) == [kind |-> kind, a |-> a, b |-> b]

Segments ==
  { Seg("plain", "a", ""), Seg("plain", " ", ""), Seg("plain", "\n", ""),
    Seg("plain", "|-", ""),
    Seg("link", "a b", "c d"),            \* [[a b|c d]]
    Seg("link1", "a b", ""),              \* [[a b]]
    Seg("link_in_label", "a", "b"),       \* [[a|[[b]]]]
    Seg("sd", "d e", ""),                 \* {{short description|d e}}
    Seg("refd", "n", ""),                 \* <ref name="n"></ref>
    Seg("refs", "n", " "),                \* <ref name='n'> </ref>
    Seg("use", "dmy", ""),                \* {{Use dmy}}
    Seg("tpl", "t|u", ""),                \* {{t|u}}
    Seg("tpl", "t{{u}}v", "") }           \* {{t{{u}}v}}

SegText(g) ==
  IF g.kind = "plain" THEN g.a
  ELSE IF g.kind = "link" THEN "[[" \o g.a \o "|" \o g.b \o "]]"
  ELSE IF g.kind = "link1" THEN "[[" \o g.a \o "]]"
  ELSE IF g.kind = "link_in_label"
    THEN "[[" \o g.a \o "|[[" \o g.b \o "]]]]"
  ELSE IF g.kind = "sd" THEN "{{short description|" \o g.a \o "}}"
  ELSE IF g.kind = "refd"
    THEN "<ref name=\"" \o g.a \o "\">" \o g.b \o "</ref>"
  ELSE IF g.kind = "refs" THEN "<ref name='" \o g.a \o "'>" \o g.b \o "</ref>"
  ELSE IF g.kind = "use" THEN "{{Use " \o g.a \o "}}"
  ELSE "{{" \o g.a \o "}}"

RECURSIVE Flatten(_)
Flatten(sg) == IF sg = <<>> THEN "" ELSE SegText(Head(sg)) \o Flatten(Tail(sg))

InitClean ==
  /\ doc = [pages |-> <<>>, malformed |-> FALSE]
  /\ args = [batch_size |-> 1, resume_from |-> 0, input_exists |-> TRUE]
  /\ state_file = Other("absent")
  /\ MainRest
  /\ conv = ConvIdle
  /\ cm \in { [CleanIdle EXCEPT !.pc = "call", !.segs = sg,
                                !.text = Flatten(sg)] :
                sg \in SeqsUpTo(Segments, MaxSegs) }

\* clean_wiki_markup(text) is called and returns
CleanOnce ==
  /\ cm.pc = "call"
  /\ cm' = [cm EXCEPT !.pc = "cleaned", !.out = clean_wiki_markup(cm.text)]
  /\ UNCHANGED <<mainVars, conv>>

\* the result is handed to clean_wiki_markup once more
CleanTwice ==
  /\ cm.pc = "cleaned"
  /\ cm' = [cm EXCEPT !.pc = "recleaned",
                      !.again = clean_wiki_markup(cm.out)]
  /\ UNCHANGED <<mainVars, conv>>

NextClean == CleanOnce \/ CleanTwice

SpecClean == InitClean /\ [][NextClean]_vars

(***************************************************************************)
(* Properties.                                                             *)
(***************************************************************************)
NPages == Len(doc.pages)

\* a page whose title and text are both present and non-empty after trimming
ValidPage(p) ==
  /\ p.title.found /\ p.title.hasText /\ strip(p.title.text) # <<>>
  /\ p.text.found /\ p.text.hasText /\ strip(p.text.text) # <<>>

\* main got past the initialisation of the counters (line 220)
CountersLoaded ==
  \/ pc \in {"loop", "fill", "pool"}
  \/ pc = "exited" /\ outcome \in {"completed", "cancelled", "parse_error"}
  \/ pc = "exited" /\ outcome = "signal_error" /\ sigAt # "start"

\* C1: at every checkpoint save and at the end of the run, success + failed
\* minus the values loaded at startup equals the number of page elements
\* whose 'end' event has been consumed from the stream in this run.
C1_CountsEqualPagesConsumed ==
  [][(writes' > writes \/ (pc' = "exited" /\ outcome' = "completed"))
       => (success' + failed') - (loaded'.success + loaded'.failed)
            = PagesRead(Events(doc'), cur')]_vars

\* C2: a page that fails validation while a batch is being filled is
\* counted as one failure and advances position by one on the step that
\* reads it, and is not added to the batch.
C2_FillFailureCounted ==
  [][(/\ pc = "fill"
      /\ cur' = cur + 1
      /\ IsPageEnd(events[cur + 1], namespace)
      /\ ~ValidPage(doc.pages[events[cur + 1].idx]))
       => /\ failed' = failed + 1
          /\ processed' = processed + 1
          /\ batch' = batch]_vars

\* C3: position, in memory and as persisted by this run, never exceeds the
\* number of page elements of the input, also when the run starts from a
\* saved checkpoint or a non-zero --resume-from (whose position is itself
\* within the document).
C3_PositionWithinInput ==
  (CountersLoaded /\ loaded.position <= NPages)
    => /\ processed <= NPages
       /\ (writes > 0 => state_file.position <= NPages)

\* C4: when the signal arrives while the pool executes a batch, the batch
\* completes and is counted, a checkpoint with status terminated is
\* persisted and the process exits with code 0.
C4_CancelDuringBatch ==
  (sigAt = "pool" /\ pc = "exited")
    => /\ exit_code = 0
       /\ writes > 0
       /\ state_file.kind = "record"
       /\ state_file.status = "terminated"

C6_ResumeFromCheckpoint ==
  (file0.kind = "record" /\ file0.status = "in_progress" /\ CountersLoaded)
    => /\ loaded = [position |-> file0.position,
                    success |-> file0.success,
                    failed |-> file0.failed]
       /\ processed >= file0.position
       /\ success >= file0.success
       /\ failed >= file0.failed
       /\ processed - file0.position
            = (success - file0.success) + (failed - file0.failed)
       /\ processed - file0.position <= PagesRead(events, cur)
       /\ writes > 0
            => /\ state_file.kind = "record"
               /\ state_file.position >= file0.position
               /\ state_file.success >= file0.success
               /\ state_file.failed >= file0.failed
               /\ state_file.position - file0.position
                    = (state_file.success - file0.success)
                        + (state_file.failed - file0.failed)

\* a resumed run whose saved counters differ from zero and from
\* --resume-from has written a checkpoint beyond the saved one
C6_Witness ==
  /\ file0.kind = "record" /\ file0.status = "in_progress"
  /\ file0.position = 1 /\ file0.success = 1 /\ file0.failed = 0
  /\ args.resume_from = 0
  /\ writes > 0
  /\ state_file.position > file0.position
  /\ outcome = "completed"

CeilDiv(n, b) == (n + b - 1) \div b

\* C7: a fresh run (no checkpoint, --resume-from 0) over N valid pages whose
\* tasks all succeed ends with position = N, success = N, failed = 0 and
\* exactly ceil(N / B) checkpoint writes, the last of them holding N.
C7_FreshRunAllValid ==
  (/\ pc = "exited" /\ outcome = "completed"
   /\ file0.kind = "absent"
   /\ args.resume_from = 0
   /\ \A i \in 1..NPages : ValidPage(doc.pages[i])
   /\ bad = 0)
    => /\ processed = NPages
       /\ success = NPages
       /\ failed = 0
       /\ writes = CeilDiv(NPages, args.batch_size)
       /\ NPages > 0 => state_file = save_state(NPages, NPages, 0, FALSE)

\* 3 valid pages with batch size 2: two writes, after the batches of 2 and 1
C7_Witness ==
  /\ pc = "exited" /\ outcome = "completed"
  /\ file0.kind = "absent"
  /\ args.resume_from = 0
  /\ NPages = 3
  /\ \A i \in 1..NPages : ValidPage(doc.pages[i])
  /\ bad = 0
  /\ args.batch_size = 2
  /\ writes = 2
  /\ Len(batch) = 1

\* C8: every record placed in a batch has a title and a text that are
\* non-empty after trimming.
C8_OnlyNonEmptyRecords ==
  \A i \in 1..Len(batch) : batch[i].title # <<>> /\ batch[i].text # <<>>

\* C9: whenever the checkpoint file is absent, empty, unreadable or corrupt
\* (valid JSON without the counters or not an object included), loading is
\* not fatal and the run starts from position = --resume-from, success = 0,
\* failed = 0.
C9_LoadNeverFatal ==
  (/\ file0.kind # "record"
   /\ args.input_exists
   /\ pc # "start"
   /\ sigAt # "start")
    => /\ outcome # "fatal"
       /\ loaded = [position |-> args.resume_from, success |-> 0, failed |-> 0]
       /\ processed >= args.resume_from

\* C10: every step leaves position equal or larger, and the position a
\* checkpoint save writes is at least the position loaded at startup and
\* at least the position written by the previous save of the run.
C10_PositionMonotone ==
  [][/\ processed' >= processed
     /\ writes' > writes
          => /\ state_file'.position >= loaded'.position
             /\ writes > 0 => state_file'.position >= state_file.position]_vars

\* a resumed run has saved twice, beyond the position it loaded
C10_Witness ==
  /\ loaded.position > 0
  /\ writes >= 2
  /\ state_file.position > loaded.position + 1

\* C11: a task that fails (conversion error, empty output, write failure
\* or any exception inside the task) yields exactly one False result and
\* leaves the other results, the counters and the run untouched; a result
\* once returned is never replaced; and when the batch is joined there is
\* one result per dispatched record, each False counted as one failure.
C11_FailureIsolation ==
  [][/\ bad' = bad + 1
          => /\ pc' = "pool"
             /\ \E i \in 1..Len(batch) :
                  /\ results[i] = "pending"
                  /\ results' = [results EXCEPT ![i] = "False"]
             /\ <<processed, success, failed, state_file>>'
                  = <<processed, success, failed, state_file>>
     /\ (pc = "pool" /\ pc' = "pool")
          => \A i \in 1..Len(results) :
               results[i] # "pending" => results'[i] = results[i]
     /\ (pc = "pool" /\ pc' = "loop")
          => /\ Len(results) = Len(batch)
             /\ \A i \in 1..Len(results) : results[i] \in {"True", "False"}
             /\ failed' = failed
                  + Cardinality({i \in 1..Len(results) : results[i] = "False"})
             /\ success' = success
                  + Cardinality({i \in 1..Len(results) : results[i] = "True"})
             /\ exit_code' = -1]_vars

\* a batch with a failed and a successful task was counted and the run
\* went on to its normal end
C11_Witness ==
  /\ outcome = "completed"
  /\ Len(results) >= 2
  /\ \E i, j \in 1..Len(results) :
       results[i] = "False" /\ results[j] = "True"
  /\ bad >= 1
  /\ success > loaded.success
  /\ failed > loaded.failed

\* C12: the flag is requested once the process has received SIGINT or
\* SIGTERM (and is not requested before).
C12_FlagSetBySignal == should_exit <=> sigAt # "none"

\* C14: a ParseError raised by the parser, in the outer loop or while a
\* batch is filled, ends the run with exit code 1; reading a page whose
\* title or text is missing or empty does not end the run.
C14_ParseErrorFatal ==
  [][/\ (pc \in {"loop", "fill"} /\ next_raises(doc, cur) = "ParseError")
          => /\ pc' = "exited"
             /\ exit_code' = 1
             /\ outcome' \in {"parse_error", "signal_error"}
     /\ (/\ pc \in {"loop", "fill"}
         /\ ~should_exit
         /\ cur' = cur + 1
         /\ IsPageEnd(events[cur + 1], namespace)
         /\ ~ValidPage(doc.pages[events[cur + 1].idx]))
          => /\ pc' \in {"loop", "fill", "pool"}
             /\ exit_code' = -1]_vars

\* the parser failed while a batch was being filled (the batch was never
\* saved), after a page without valid fields had been counted and passed
C14_Witness ==
  /\ outcome = "parse_error"
  /\ exit_code = 1
  /\ writes = 0
  /\ Len(batch) >= 1
  /\ failed > loaded.failed

\* C18: while the pool executes a batch, the counters and the checkpoint
\* change only once every task has returned, no event is taken from the
\* stream, and a returning task changes neither counters nor checkpoint.
C18_Barrier ==
  [][pc = "pool"
       => /\ <<processed, success, failed, state_file, writes>>'
               # <<processed, success, failed, state_file, writes>>
               => \A i \in 1..Len(results) : results[i] # "pending"
          /\ cur' = cur
          /\ results' # results
               => <<processed, success, failed, state_file, writes>>'
                    = <<processed, success, failed, state_file, writes>>]_vars

\* a batch of two or more tasks was joined and saved and the reader has
\* gone on to the next event
C18_Witness ==
  /\ writes >= 1
  /\ Len(results) >= 2
  /\ \A i \in 1..Len(results) : results[i] # "pending"
  /\ pc = "loop"
  /\ lastPull = "outer"
  /\ state_file.position = processed

\* C19: when main stops because the stream is exhausted or cancellation
\* was observed, the counters a restart would load from the checkpoint
\* file equal the counters in memory.
C19_NothingLostAtEnd ==
  (pc = "exited" /\ outcome \in {"completed", "cancelled"})
    => initial_counters(load_state(state_file), args.resume_from)
         = [position |-> processed, success |-> success, failed |-> failed]

\* C20: at every loop boundary and in every checkpoint written by the run,
\* position has advanced since startup by exactly as much as
\* success + failed.
C20_CounterConsistency ==
  CountersLoaded
    => /\ processed - loaded.position
            = (success + failed) - (loaded.success + loaded.failed)
       /\ writes > 0
            => state_file.position - loaded.position
                 = (state_file.success + state_file.failed)
                     - (loaded.success + loaded.failed)

\* a run whose starting position differs from its starting counts has
\* counted successes and failures and saved them
C20_Witness ==
  /\ loaded.position # loaded.success + loaded.failed
  /\ writes >= 1
  /\ success > loaded.success
  /\ failed > loaded.failed + 1
  /\ pc = "loop"

\* C13: once convert_to_markdown has returned or raised, for whatever
\* reason, the temporary file it created no longer exists.
C13_TempFileReleased ==
  conv.pc \in {"returned", "raised"} => ~conv.temp

\* the text w stands somewhere in s
Contains(s, w) == \E i \in 1..(Len(s) + 1) : HasAt(s, i, w)

\* [L](/T') for target T and label L, T' being T with '_' for each space
Markdown(T, L) == "[" \o L \o "](/" \o replace(T, " ", "_") \o ")"

\* C15: every internal link [[T|L]] of the input has become [L](/T') and
\* every internal link [[T]] has become [T](/T') in the cleaned text, the
\* link [[b]] inside the label of another link included.
C15_LinkRewrite ==
  cm.pc = "cleaned" =>
    \A i \in 1..Len(cm.segs) :
      LET g == cm.segs[i]
      IN  /\ g.kind = "link" => Contains(cm.out, Markdown(g.a, g.b))
          /\ g.kind = "link1" => Contains(cm.out, Markdown(g.a, g.a))
          /\ g.kind = "link_in_label" =>
               Contains(cm.out, Markdown(g.b, g.b))

\* the constructs the idempotence contract speaks of
Normalized(sg) ==
  \A i \in 1..Len(sg) : sg[i].kind \in {"plain", "sd", "refd", "refs"}

\* C16: for a text built only from plain text, short-description templates
\* and empty named references in either quote style, cleaning the cleaned
\* text changes nothing: clean(clean(x)) = clean(x).
C16_Idempotent ==
  (cm.pc = "recleaned" /\ Normalized(cm.segs)) => cm.again = cm.out

\* a text with a short description and a named reference has been cleaned
\* twice, and the first pass did change it
C16_Witness ==
  /\ cm.pc = "recleaned"
  /\ Normalized(cm.segs)
  /\ \E i, j \in 1..Len(cm.segs) :
       cm.segs[i].kind = "sd" /\ cm.segs[j].kind \in {"refd", "refs"}
  /\ cm.out # cm.text
  /\ cm.again = cm.out

\* a template invocation is left in s: "{{", some text, "}}"
TemplateLeft(s) ==
  \E i \in 1..Len(s) :
    /\ HasAt(s, i, "{{")
    /\ \E j \in (i + 3)..Len(s) : HasAt(s, j, "}}")

\* C17: in the cleaned text {{short description|D}} has become
\* '<!-- Short description: D -->', every {{Use ...}} template is gone,
\* every other template {{X}} has become '<!-- X -->', and no '{{...}}'
\* invocation is left.
C17_RuleOrder ==
  cm.pc = "cleaned" =>
    /\ \A i \in 1..Len(cm.segs) :
         LET g == cm.segs[i]
         IN  /\ g.kind = "sd" =>
                  Contains(cm.out, "<!-- Short description: " \o g.a \o " -->")
             /\ g.kind = "use" => ~Contains(cm.out, "{{Use")
             /\ g.kind = "tpl" =>
                  Contains(cm.out, "<!-- " \o g.a \o " -->")
    /\ ~TemplateLeft(cm.out)

====
